---- MODULE Spec2Model ----
(***************************************************************************)
(* Model of the kingpin actor engine:                                      *)
(*   - kingpin/actors/group.py      BaseGroupActor, Sync, Async            *)
(*   - kingpin/actors/aws/elb.py    RegisterInstance, DeregisterInstance   *)
(*   - kingpin/actors/packagecloud.py  PackagecloudBase._delete            *)
(*                                                                         *)
(* Spec       : construction and execution of a tree of group actors.      *)
(* SpecActors : execution of one leaf actor (ELB register/deregister,      *)
(*              packagecloud Delete/DeleteByDate).                         *)
(***************************************************************************)
EXTENDS Integers, Sequences, FiniteSets, TLC

\* ------------------------------------------------------------------ bounds
\* Largest number of actors (groups and leaves) in one declared tree.
MaxNodes == 4

\* Largest number of failing calls of an external operation that fails a
\* finite number of times.
MaxFails == 2

\* Number of attempts after which the retry loop is no longer followed.
MaxAttempts == 4

\* Largest number of packages in the repository.
MaxPkgs == 3

\* Creation times run over 0..MaxTime; the deletion runs at time MaxTime.
MaxTime == 2

\* Largest value of the option number_to_keep.
MaxKeep == 2
MaxInstances == 2
MaxCount == 2
MaxEvals == 4
MaxChanges == 2
MaxTotal == 25
MaxPercent == 100

\* ------------------------------------------------------------- group tree
VARIABLES
    acts,       \* the declarative input, flattened in declaration (pre-)order:
                \* acts[n] = [kind, parent, valid]
    dryRun,     \* the dry flag the top Group is constructed with
    inited,     \* per actor: "none" | "building" | "ready"  (its __init__)
    dry,        \* per actor: its _dry attribute
    failed,     \* an exception escaped the construction of the top Group
    exec,       \* per actor: "idle" | "running" | "done" | "cancelled"
    result,     \* per actor: what its execute() returned
    returns,    \* per group: the list `returns` / `ret` of _run_actions
    launched,   \* per Async group: len(executions)
    gpc,        \* per group: "loop" | "wait" | "returned"
    calls       \* per actor: how many times its execute() was invoked

groupVars == <<acts, dryRun, inited, dry, failed, exec, result, returns,
               launched, gpc, calls>>

\* ------------------------------------------------------------ leaf actors
VARIABLES
    akind,          \* the class of the leaf actor
    adry,           \* its _dry attribute
    apc,            \* where its _execute is
    areturns,       \* what its execute() returned: <<>> before, <<r>> after
    \* aws.elb RegisterInstance / DeregisterInstance
    instances,      \* option 'instance_id', as the list of ids
    elbInstances,   \* the instances registered with the load balancer
    registerCalls,  \* calls of elb.register_instances so far
    deregisterCalls,\* calls of elb.deregister_instances so far
    attempts,       \* attempts made by the retry decorator
    failKind,       \* the error the load balancer call raises, if any
    failsLeft,      \* number of calls that still raise it
    failAlways,     \* every call raises it
    lastError,      \* the last error the retry decorator caught
    \* packagecloud Delete / DeleteByDate
    repoPackages,   \* what the packages API returns: [name, created_at]
    pattern,        \* the names the regex 'packages_to_delete' matches
    number_to_keep, \* option 'number_to_keep'
    optOlderThan,   \* option 'older_than' (DeleteByDate)
    older_than,     \* argument older_than of _delete
    all_packages,   \* all_packages
    packages_list_to_delete,
                    \* names of packages_list_to_delete not yet visited
    package_versions,
                    \* package_versions, as indexes into all_packages
    vi,             \* position of the inner loop in package_versions
    number_in_repo, \* number_in_repo
    deleted_packages,
                    \* deleted_packages
    httpDeletes     \* packages for which http_delete was issued, in order

elbVars == <<instances, elbInstances, registerCalls, deregisterCalls,
             attempts, failKind, failsLeft, failAlways, lastError>>

pkgVars == <<repoPackages, pattern, number_to_keep, optOlderThan, older_than,
             all_packages, packages_list_to_delete, package_versions, vi,
             number_in_repo, deleted_packages, httpDeletes>>

actorVars == <<akind, adry, apc, areturns, elbVars, pkgVars>>

\* -------------------------------------------------- the retried ELB calls
VARIABLES
    failTimes,      \* number of calls that raise, when not every call does
    callArgs        \* the `instances` argument of every call made so far

retryVars == <<failTimes, callArgs>>

\* ------------------------ aws.elb WaitUntilHealthy, packagecloud WaitFor..
VARIABLES
    count,          \* option 'count': [pct, n] is 'n%' if pct, else n
    health,         \* elb.get_instance_health(): the state of each instance
    total_count,    \* total_count of the last _is_healthy, -1 before
    expected_count, \* expected_count of the last _is_healthy, -1 before
    evals,          \* evaluations of the condition so far
    sleeps,         \* sleeps so far
    history,        \* the values of the condition, in order
    cancelAt,       \* evals when wait_task.cancel() was called, -1 before
    changes,        \* changes of the outside world so far
    pollRepo,       \* what the packages API returns: [name, version]
    namePattern,    \* the names the regex 'name' matches
    versionPattern  \* the versions the regex 'version' matches

pollVars == <<count, health, total_count, expected_count, evals, sleeps,
              history, cancelAt, changes, pollRepo, namePattern,
              versionPattern>>

vars == <<groupVars, actorVars, retryVars, pollVars>>

NodeIds == 1..MaxNodes

GroupKinds == {"Sync", "Async"}

Kinds == GroupKinds \cup {"Leaf"}

Nodes == DOMAIN acts

IsGroup(n) == acts[n].kind \in GroupKinds

\* self._options['acts'] of group g, as the set of its child actors.
Children(g) == {c \in Nodes : acts[c].parent = g}

\* Position (1-based) of child c in self._actions of g.
ChildIndex(g, c) == Cardinality({d \in Children(g) : d <= c})

\* self._actions[i-1] of group g.
NthChild(g, i) == CHOOSE c \in Children(g) : ChildIndex(g, c) = i

NumChildren(g) == Cardinality(Children(g))

\* ----------------------------------------------------- declarative inputs
RECURSIVE AncestorsOrSelf(_, _)
AncestorsOrSelf(p, n) ==
    IF n = 0 THEN {} ELSE {n} \cup AncestorsOrSelf(p, p[n])

\* Parent maps of trees whose nodes are numbered in declaration order: the
\* nested 'acts' lists are read depth first, so the parent of node n is an
\* ancestor (or self) of node n-1.
PreorderParents(n) ==
    {p \in [1..n -> 0..(n - 1)] :
        /\ p[1] = 0
        /\ \A i \in 2..n : p[i] \in AncestorsOrSelf(p, i - 1)}

\* Only a group has an 'acts' list; the top actor is a group.
KindsFor(p, n) ==
    {k \in [1..n -> Kinds] :
        /\ k[1] \in GroupKinds
        /\ \A i \in 2..n : k[p[i]] \in GroupKinds}

ActsOfSize(n) ==
    UNION {{[i \in 1..n |-> [kind |-> k[i], parent |-> p[i], valid |-> i # bad]]
                : k \in KindsFor(p, n), bad \in 0..n}
            : p \in PreorderParents(n)}

ActsInputs == UNION {ActsOfSize(n) : n \in 1..MaxNodes}

\* ------------------------------------------------------------------- Init
InitGroup ==
    /\ acts \in ActsInputs
    /\ dryRun \in BOOLEAN
    /\ inited = [n \in NodeIds |-> "none"]
    /\ dry = [n \in NodeIds |-> FALSE]
    /\ failed = FALSE
    /\ exec = [n \in NodeIds |-> "idle"]
    /\ result = [n \in NodeIds |-> FALSE]
    /\ returns = [n \in NodeIds |-> <<>>]
    /\ launched = [n \in NodeIds |-> 0]
    /\ gpc = [n \in NodeIds |-> "loop"]
    /\ calls = [n \in NodeIds |-> 0]

\* ----------------------------------------------------------- construction
\* BaseActor.__init__(desc, options, dry): the actor keeps the dry flag it
\* is given in its attribute _dry.
BaseActorInit(n, d) == dry' = [dry EXCEPT ![n] = d]

\* The caller constructs the top Group: BaseGroupActor.__init__ stores the
\* options and the dry flag, then starts _build_actions.
Construct ==
    /\ ~failed
    /\ inited[1] = "none"
    /\ IF acts[1].valid
         THEN /\ inited' = [inited EXCEPT ![1] = "building"]
              /\ BaseActorInit(1, dryRun)
              /\ UNCHANGED failed
         ELSE /\ failed' = TRUE
              /\ UNCHANGED <<inited, dry>>
    /\ UNCHANGED <<acts, dryRun, exec, result, returns, launched, gpc>>
    /\ UNCHANGED <<calls, actorVars, retryVars, pollVars>>

\* The next act of g's loop in _build_actions: every earlier one is built.
NextToBuild(g, c) ==
    /\ c \in Children(g)
    /\ inited[c] = "none"
    /\ \A d \in Children(g) : d < c => inited[d] = "ready"

\* GetActor with the invalid act kept in the list instead of raising.
GetActorLazy(g, c) ==
    /\ ~failed
    /\ g \in Nodes
    /\ IsGroup(g)
    /\ inited[g] = "building"
    /\ NextToBuild(g, c)
    /\ inited' = [inited EXCEPT
                     ![c] = IF IsGroup(c) THEN "building" ELSE "ready"]
    /\ BaseActorInit(c, dry[g])
    /\ UNCHANGED failed
    /\ UNCHANGED <<acts, dryRun, exec, result, returns, launched, gpc>>
    /\ UNCHANGED <<calls, actorVars, retryVars, pollVars>>

\* GetActor with the dry argument of get_actor left at its default.
GetActorNoDry(g, c) ==
    /\ ~failed
    /\ g \in Nodes
    /\ IsGroup(g)
    /\ inited[g] = "building"
    /\ NextToBuild(g, c)
    /\ IF acts[c].valid
         THEN /\ inited' = [inited EXCEPT
                                ![c] = IF IsGroup(c) THEN "building" ELSE "ready"]
              /\ BaseActorInit(c, FALSE)
              /\ UNCHANGED failed
         ELSE /\ failed' = TRUE
              /\ UNCHANGED <<inited, dry>>
    /\ UNCHANGED <<acts, dryRun, exec, result, returns, launched, gpc>>
    /\ UNCHANGED <<calls, actorVars, retryVars, pollVars>>

\* One iteration of the loop of _build_actions:
\*     actions.append(utils.get_actor(act, dry=self._dry))
\* An invalid act raises in its constructor; nothing catches it, so the
\* whole assembly is aborted.
GetActor(g, c) ==
    /\ ~failed
    /\ g \in Nodes
    /\ IsGroup(g)
    /\ inited[g] = "building"
    /\ NextToBuild(g, c)
    /\ IF acts[c].valid
         THEN /\ inited' = [inited EXCEPT
                                ![c] = IF IsGroup(c) THEN "building" ELSE "ready"]
              /\ BaseActorInit(c, dry[g])
              /\ UNCHANGED failed
         ELSE /\ failed' = TRUE
              /\ UNCHANGED <<inited, dry>>
    /\ UNCHANGED <<acts, dryRun, exec, result, returns, launched, gpc>>
    /\ UNCHANGED <<calls, actorVars, retryVars, pollVars>>

\* _build_actions returns the list and __init__ of g completes.
BuildDone(g) ==
    /\ ~failed
    /\ g \in Nodes
    /\ IsGroup(g)
    /\ inited[g] = "building"
    /\ \A c \in Children(g) : inited[c] = "ready"
    /\ inited' = [inited EXCEPT ![g] = "ready"]
    /\ UNCHANGED <<acts, dryRun, dry, failed, exec, result, returns,
                   launched, gpc>>
    /\ UNCHANGED <<calls, actorVars, retryVars, pollVars>>

\* -------------------------------------------------------------- execution
\* all() taken for any().
RECURSIVE allAsAny(_)
allAsAny(ret) ==
    IF ret = <<>> THEN TRUE
    ELSE IF Head(ret) THEN TRUE
    ELSE IF Tail(ret) = <<>> THEN FALSE
    ELSE allAsAny(Tail(ret))

\* all() that wants at least one element: bool(ret) and all(ret).
allOfSome(ret) == ret # <<>> /\ \A i \in DOMAIN ret : ret[i]

\* Python's all(): False at the first false element, True for an empty list.
RECURSIVE all(_)
all(ret) ==
    IF ret = <<>> THEN TRUE
    ELSE IF ~Head(ret) THEN FALSE
    ELSE all(Tail(ret))

\* The caller runs execute() of the top Group, which it can only do with the
\* object its constructor returned.
Execute ==
    /\ inited[1] = "ready"
    /\ exec[1] = "idle"
    /\ exec' = [exec EXCEPT ![1] = "running"]
    /\ calls' = [calls EXCEPT ![1] = @ + 1]
    /\ UNCHANGED <<acts, dryRun, inited, dry, failed, result, returns,
                   launched, gpc>>
    /\ UNCHANGED <<actorVars, retryVars, pollVars>>

\* SyncBegin that does not wait for the previous act: any idle act starts.
SyncBeginNoWait(g) ==
    /\ g \in Nodes
    /\ acts[g].kind = "Sync"
    /\ exec[g] = "running"
    /\ gpc[g] = "loop"
    /\ \E c \in Children(g) :
          /\ exec[c] = "idle"
          /\ \A d \in Children(g) : d < c => exec[d] # "idle"
          /\ exec' = [exec EXCEPT ![c] = "running"]
          /\ calls' = [calls EXCEPT ![c] = @ + 1]
    /\ UNCHANGED <<acts, dryRun, inited, dry, failed, result, returns,
                   launched, gpc>>
    /\ UNCHANGED <<actorVars, retryVars, pollVars>>

\* Sync._run_actions: `ret = yield act.execute()` is reached for the next
\* act of the loop: its execute() starts.
SyncBegin(g) ==
    /\ g \in Nodes
    /\ acts[g].kind = "Sync"
    /\ exec[g] = "running"
    /\ gpc[g] = "loop"
    /\ Len(returns[g]) < NumChildren(g)
    /\ LET c == NthChild(g, Len(returns[g]) + 1) IN
          /\ exec[c] = "idle"
          /\ exec' = [exec EXCEPT ![c] = "running"]
          /\ calls' = [calls EXCEPT ![c] = @ + 1]
    /\ UNCHANGED <<acts, dryRun, inited, dry, failed, result, returns,
                   launched, gpc>>
    /\ UNCHANGED <<actorVars, retryVars, pollVars>>

\* SyncYield that runs an act again when it returned False.
SyncYieldRetryFailed(g) ==
    /\ g \in Nodes
    /\ acts[g].kind = "Sync"
    /\ exec[g] = "running"
    /\ gpc[g] = "loop"
    /\ Len(returns[g]) < NumChildren(g)
    /\ LET c == NthChild(g, Len(returns[g]) + 1) IN
          /\ exec[c] = "done"
          /\ IF result[c]
               THEN /\ returns' = [returns EXCEPT ![g] = Append(@, result[c])]
                    /\ UNCHANGED exec
               ELSE /\ exec' = [exec EXCEPT ![c] = "idle"]
                    /\ UNCHANGED returns
    /\ UNCHANGED <<acts, dryRun, inited, dry, failed, result, launched,
                   gpc>>
    /\ UNCHANGED <<calls, actorVars, retryVars, pollVars>>

\* Sync._run_actions: the yield resumes with the result of the act, which is
\* appended to `returns`.
SyncYield(g) ==
    /\ g \in Nodes
    /\ acts[g].kind = "Sync"
    /\ exec[g] = "running"
    /\ gpc[g] = "loop"
    /\ Len(returns[g]) < NumChildren(g)
    /\ LET c == NthChild(g, Len(returns[g]) + 1) IN
          /\ exec[c] = "done"
          /\ returns' = [returns EXCEPT ![g] = Append(@, result[c])]
    /\ UNCHANGED <<acts, dryRun, inited, dry, failed, exec, result, launched,
                   gpc>>
    /\ UNCHANGED <<calls, actorVars, retryVars, pollVars>>

\* SyncReturn that also leaves the loop at the first false result.
SyncReturnShortCircuit(g) ==
    /\ g \in Nodes
    /\ acts[g].kind = "Sync"
    /\ exec[g] = "running"
    /\ gpc[g] = "loop"
    /\ \/ Len(returns[g]) = NumChildren(g)
       \/ /\ Len(returns[g]) > 0
          /\ ~returns[g][Len(returns[g])]
    /\ gpc' = [gpc EXCEPT ![g] = "returned"]
    /\ UNCHANGED <<acts, dryRun, inited, dry, failed, exec, result, returns,
                   launched>>
    /\ UNCHANGED <<calls, actorVars, retryVars, pollVars>>

\* Sync._run_actions: the loop is over, raise gen.Return(returns).
SyncReturn(g) ==
    /\ g \in Nodes
    /\ acts[g].kind = "Sync"
    /\ exec[g] = "running"
    /\ gpc[g] = "loop"
    /\ Len(returns[g]) = NumChildren(g)
    /\ gpc' = [gpc EXCEPT ![g] = "returned"]
    /\ UNCHANGED <<acts, dryRun, inited, dry, failed, exec, result, returns,
                   launched>>
    /\ UNCHANGED <<calls, actorVars, retryVars, pollVars>>

\* Async._run_actions: executions.append(act.execute()) for the next act.
AsyncLaunch(g) ==
    /\ g \in Nodes
    /\ acts[g].kind = "Async"
    /\ exec[g] = "running"
    /\ gpc[g] = "loop"
    /\ launched[g] < NumChildren(g)
    /\ LET c == NthChild(g, launched[g] + 1) IN
          /\ exec[c] = "idle"
          /\ exec' = [exec EXCEPT ![c] = "running"]
          /\ calls' = [calls EXCEPT ![c] = @ + 1]
    /\ launched' = [launched EXCEPT ![g] = @ + 1]
    /\ UNCHANGED <<acts, dryRun, inited, dry, failed, result, returns, gpc>>
    /\ UNCHANGED <<actorVars, retryVars, pollVars>>

\* AsyncWait that yields inside the loop, after the first act was launched.
AsyncWaitInLoop(g) ==
    /\ g \in Nodes
    /\ acts[g].kind = "Async"
    /\ exec[g] = "running"
    /\ gpc[g] = "loop"
    /\ \/ launched[g] = NumChildren(g)
       \/ launched[g] >= 1
    /\ gpc' = [gpc EXCEPT ![g] = "wait"]
    /\ UNCHANGED <<acts, dryRun, inited, dry, failed, exec, result, returns,
                   launched>>
    /\ UNCHANGED <<calls, actorVars, retryVars, pollVars>>

\* Async._run_actions: the for loop is over, `yield executions` is reached.
AsyncWait(g) ==
    /\ g \in Nodes
    /\ acts[g].kind = "Async"
    /\ exec[g] = "running"
    /\ gpc[g] = "loop"
    /\ launched[g] = NumChildren(g)
    /\ gpc' = [gpc EXCEPT ![g] = "wait"]
    /\ UNCHANGED <<acts, dryRun, inited, dry, failed, exec, result, returns,
                   launched>>
    /\ UNCHANGED <<calls, actorVars, retryVars, pollVars>>

\* AsyncJoin that resumes as soon as one future is resolved.
AsyncJoinAny(g) ==
    /\ g \in Nodes
    /\ acts[g].kind = "Async"
    /\ exec[g] = "running"
    /\ gpc[g] = "wait"
    /\ \/ \A c \in Children(g) : exec[c] = "done"
       \/ \E c \in Children(g) : exec[c] = "done"
    /\ returns' = [returns EXCEPT
                     ![g] = [i \in 1..NumChildren(g) |-> result[NthChild(g, i)]]]
    /\ gpc' = [gpc EXCEPT ![g] = "returned"]
    /\ UNCHANGED <<acts, dryRun, inited, dry, failed, exec, result,
                   launched>>
    /\ UNCHANGED <<calls, actorVars, retryVars, pollVars>>

\* AsyncJoin that, at the first failed act, cancels the acts still running.
AsyncJoinFailFast(g) ==
    /\ g \in Nodes
    /\ acts[g].kind = "Async"
    /\ exec[g] = "running"
    /\ gpc[g] = "wait"
    /\ \/ \A c \in Children(g) : exec[c] = "done"
       \/ \E c \in Children(g) : exec[c] = "done" /\ ~result[c]
    /\ exec' = [n \in NodeIds |->
                  IF n \in Children(g) /\ exec[n] = "running"
                  THEN "cancelled" ELSE exec[n]]
    /\ returns' = [returns EXCEPT
                     ![g] = [i \in 1..NumChildren(g) |-> result[NthChild(g, i)]]]
    /\ gpc' = [gpc EXCEPT ![g] = "returned"]
    /\ UNCHANGED <<acts, dryRun, inited, dry, failed, result, launched>>
    /\ UNCHANGED <<calls, actorVars, retryVars, pollVars>>

\* Async._run_actions: the yield of the list of futures resumes once every
\* future is resolved, with the list of their results in list order.
AsyncJoin(g) ==
    /\ g \in Nodes
    /\ acts[g].kind = "Async"
    /\ exec[g] = "running"
    /\ gpc[g] = "wait"
    /\ \A c \in Children(g) : exec[c] = "done"
    /\ returns' = [returns EXCEPT
                     ![g] = [i \in 1..NumChildren(g) |-> result[NthChild(g, i)]]]
    /\ gpc' = [gpc EXCEPT ![g] = "returned"]
    /\ UNCHANGED <<acts, dryRun, inited, dry, failed, exec, result,
                   launched>>
    /\ UNCHANGED <<calls, actorVars, retryVars, pollVars>>

\* BaseGroupActor._execute: raise gen.Return(all(ret)).
GroupExecute(g) ==
    /\ g \in Nodes
    /\ IsGroup(g)
    /\ exec[g] = "running"
    /\ gpc[g] = "returned"
    /\ exec' = [exec EXCEPT ![g] = "done"]
    /\ result' = [result EXCEPT ![g] = all(returns[g])]
    /\ UNCHANGED <<acts, dryRun, inited, dry, failed, returns, launched,
                   gpc>>
    /\ UNCHANGED <<calls, actorVars, retryVars, pollVars>>

\* A leaf actor's execute() completes with its boolean result.
LeafFinish(c) ==
    /\ c \in Nodes
    /\ ~IsGroup(c)
    /\ exec[c] = "running"
    /\ \E r \in BOOLEAN :
          /\ exec' = [exec EXCEPT ![c] = "done"]
          /\ result' = [result EXCEPT ![c] = r]
    /\ UNCHANGED <<acts, dryRun, inited, dry, failed, returns, launched,
                   gpc>>
    /\ UNCHANGED <<calls, actorVars, retryVars, pollVars>>

\* ============================================================ leaf actors
ElbKinds == {"RegisterInstance", "DeregisterInstance"}

PkgKinds == {"Delete", "DeleteByDate"}

ActorKinds == ElbKinds \cup PkgKinds

InstanceIds == {"i-1", "i-2"}

ErrorKinds == {"OperationalError", "UnrecoverableError"}

PkgNames == {"pkg1", "pkg2"}

\* The time at which _delete runs (datetime.datetime.now()).
Now == MaxTime

\* Lists of at most n packages.
RECURSIVE PackageLists(_)
PackageLists(n) ==
    IF n = 0 THEN {<<>>}
    ELSE PackageLists(n - 1) \cup
         [1..n -> [name : PkgNames, created_at : 0..MaxTime]]

ElbUnused ==
    /\ instances = {}
    /\ elbInstances = {}
    /\ registerCalls = 0
    /\ deregisterCalls = 0
    /\ attempts = 0
    /\ failKind = "none"
    /\ failsLeft = 0
    /\ failAlways = FALSE
    /\ lastError = "none"

PkgUnused ==
    /\ repoPackages = <<>>
    /\ pattern = {}
    /\ number_to_keep = 0
    /\ optOlderThan = 0
    /\ older_than = 0
    /\ all_packages = <<>>
    /\ packages_list_to_delete = {}
    /\ package_versions = <<>>
    /\ vi = 0
    /\ number_in_repo = 0
    /\ deleted_packages = <<>>
    /\ httpDeletes = <<>>

RetryUnused ==
    /\ failTimes = 0
    /\ callArgs = <<>>

PollUnused ==
    /\ count = [pct |-> FALSE, n |-> 0]
    /\ health = <<>>
    /\ total_count = -1
    /\ expected_count = -1
    /\ evals = 0
    /\ sleeps = 0
    /\ history = <<>>
    /\ cancelAt = -1
    /\ changes = 0
    /\ pollRepo = <<>>
    /\ namePattern = {}
    /\ versionPattern = {}

ActorsUnused ==
    /\ akind = "none"
    /\ adry = FALSE
    /\ apc = "idle"
    /\ areturns = <<>>
    /\ ElbUnused
    /\ PkgUnused
    /\ RetryUnused
    /\ PollUnused

InitElb ==
    /\ instances \in SUBSET InstanceIds \ {{}}
    /\ elbInstances \in SUBSET InstanceIds
    /\ registerCalls = 0
    /\ deregisterCalls = 0
    /\ attempts = 0
    /\ failKind \in ErrorKinds \cup {"none"}
    /\ failAlways \in (IF failKind = "none" THEN {FALSE} ELSE BOOLEAN)
    /\ failsLeft \in (IF failKind = "none" \/ failAlways
                        THEN {0} ELSE 1..MaxFails)
    /\ lastError = "none"

InitPkg ==
    /\ repoPackages \in PackageLists(MaxPkgs)
    /\ pattern \in SUBSET PkgNames
    /\ number_to_keep \in 0..MaxKeep
    /\ optOlderThan \in (IF akind = "DeleteByDate" THEN 0..MaxTime ELSE {0})
    /\ older_than = 0
    /\ all_packages = <<>>
    /\ packages_list_to_delete = {}
    /\ package_versions = <<>>
    /\ vi = 0
    /\ number_in_repo = 0
    /\ deleted_packages = <<>>
    /\ httpDeletes = <<>>

\* The calls that raise are the first failTimes ones.
InitRetry ==
    /\ failTimes = failsLeft
    /\ callArgs = <<>>

InitActors ==
    /\ akind \in ActorKinds
    /\ adry \in BOOLEAN
    /\ apc = "idle"
    /\ areturns = <<>>
    /\ IF akind \in ElbKinds THEN InitElb /\ PkgUnused
                             ELSE ElbUnused /\ InitPkg
    /\ InitRetry
    /\ PollUnused

\* ---------------------------------------------------------------- aws.elb
\* RegisterInstance._execute without the test of self._dry.
RegisterInstanceExecuteNoDry ==
    /\ akind = "RegisterInstance"
    /\ apc = "idle"
    /\ apc' = "retry"
    /\ UNCHANGED <<areturns, akind, adry, elbVars, pkgVars, groupVars,
                   retryVars, pollVars>>

\* RegisterInstance._execute: the ELB is looked up, the instance ids are
\* listed and, unless the actor is dry, _add is called.
RegisterInstanceExecute ==
    /\ akind = "RegisterInstance"
    /\ apc = "idle"
    /\ apc' = IF ~adry THEN "retry" ELSE "done"
    /\ UNCHANGED <<areturns, akind, adry, elbVars, pkgVars, groupVars,
                   retryVars, pollVars>>

\* DeregisterInstance._execute: as above, with _remove.
DeregisterInstanceExecute ==
    /\ akind = "DeregisterInstance"
    /\ apc = "idle"
    /\ apc' = IF ~adry THEN "retry" ELSE "done"
    /\ UNCHANGED <<areturns, akind, adry, elbVars, pkgVars, groupVars,
                   retryVars, pollVars>>

\* RetryAttempt that stops at the second failed attempt and re-raises (as
\* retry(stop_max_attempt_number=2) would).
RetryAttemptGiveUp(after) ==
    /\ apc = "retry"
    /\ attempts < MaxAttempts
    /\ attempts' = attempts + 1
    /\ IF failAlways \/ failsLeft > 0
         THEN /\ lastError' = failKind
              /\ failsLeft' = IF failAlways THEN failsLeft ELSE failsLeft - 1
              /\ apc' = IF attempts + 1 >= 2 THEN "raised" ELSE apc
              /\ UNCHANGED elbInstances
         ELSE /\ elbInstances' = after
              /\ apc' = "done"
              /\ UNCHANGED <<lastError, failsLeft>>

\* One attempt of the @retry decorator (retrying.retry without arguments:
\* it retries on every exception, never stops and does not wait): the call
\* either raises, and the loop goes on, or changes the load balancer to
\* `after` and returns.
RetryAttempt(after) ==
    /\ apc = "retry"
    /\ attempts < MaxAttempts
    /\ attempts' = attempts + 1
    /\ IF failAlways \/ failsLeft > 0
         THEN /\ lastError' = failKind
              /\ failsLeft' = IF failAlways THEN failsLeft ELSE failsLeft - 1
              /\ UNCHANGED <<apc, elbInstances>>
         ELSE /\ elbInstances' = after
              /\ apc' = "done"
              /\ UNCHANGED <<lastError, failsLeft>>

\* RegisterInstance._add: elb.register_instances(instances), retried.
Add ==
    /\ akind = "RegisterInstance"
    /\ RetryAttempt(elbInstances \cup instances)
    /\ registerCalls' = registerCalls + 1
    /\ callArgs' = Append(callArgs, instances)
    /\ UNCHANGED <<areturns, akind, adry, instances, deregisterCalls, failKind,
                   failAlways, failTimes, pkgVars, groupVars, pollVars>>

\* DeregisterInstance._remove: elb.deregister_instances(instances), retried.
Remove ==
    /\ akind = "DeregisterInstance"
    /\ RetryAttempt(elbInstances \ instances)
    /\ deregisterCalls' = deregisterCalls + 1
    /\ callArgs' = Append(callArgs, instances)
    /\ UNCHANGED <<areturns, akind, adry, instances, registerCalls, failKind,
                   failAlways, failTimes, pkgVars, groupVars, pollVars>>

\* ----------------------------------------------------------- packagecloud
\* _get_packages_list_to_delete: the set of the names of the packages the
\* regex matches.
GetPackagesListToDelete(regex, packages) ==
    {packages[i].name : i \in {j \in DOMAIN packages :
                                  packages[j].name \in regex}}

\* _get_package_versions: the packages called `name`, sorted on created_at
\* with reverse=True. The sort is stable: packages created at the same time
\* keep the order of all_packages.
GetPackageVersions(name, packages) ==
    LET ids == {i \in DOMAIN packages : packages[i].name = name}
        Before(j, i) ==
            \/ packages[j].created_at > packages[i].created_at
            \/ /\ packages[j].created_at = packages[i].created_at
               /\ j < i
        Pos(i) == 1 + Cardinality({j \in ids : Before(j, i)})
    IN  [k \in 1..Cardinality(ids) |-> CHOOSE i \in ids : Pos(i) = k]

\* Delete._execute: calls _delete; older_than keeps its default, 0.
DeleteExecute ==
    /\ akind = "Delete"
    /\ apc = "idle"
    /\ apc' = "delete"
    /\ older_than' = 0
    /\ UNCHANGED <<areturns, akind, adry, elbVars, repoPackages, pattern,
                   number_to_keep, optOlderThan, all_packages,
                   packages_list_to_delete, package_versions, vi,
                   number_in_repo, deleted_packages, httpDeletes, groupVars,
                   retryVars, pollVars>>

\* DeleteByDate._execute: calls _delete with the option older_than.
DeleteByDateExecute ==
    /\ akind = "DeleteByDate"
    /\ apc = "idle"
    /\ apc' = "delete"
    /\ older_than' = optOlderThan
    /\ UNCHANGED <<areturns, akind, adry, elbVars, repoPackages, pattern,
                   number_to_keep, optOlderThan, all_packages,
                   packages_list_to_delete, package_versions, vi,
                   number_in_repo, deleted_packages, httpDeletes, groupVars,
                   retryVars, pollVars>>

\* _delete, up to its outer loop: the packages are fetched and the names to
\* delete are extracted.
DeleteFetch ==
    /\ apc = "delete"
    /\ all_packages' = repoPackages
    /\ packages_list_to_delete' = GetPackagesListToDelete(pattern, repoPackages)
    /\ deleted_packages' = <<>>
    /\ apc' = "names"
    /\ UNCHANGED <<areturns, akind, adry, elbVars, repoPackages, pattern,
                   number_to_keep, optOlderThan, older_than,
                   package_versions, vi, number_in_repo, httpDeletes,
                   groupVars,
                   retryVars, pollVars>>

\* _delete, one iteration of `for name in packages_list_to_delete` up to its
\* inner loop. The names are a set: they are visited in any order.
DeleteNextName ==
    /\ apc = "names"
    /\ \E name \in packages_list_to_delete :
          /\ packages_list_to_delete' = packages_list_to_delete \ {name}
          /\ package_versions' = GetPackageVersions(name, all_packages)
          /\ number_in_repo' = Len(GetPackageVersions(name, all_packages))
    /\ vi' = 1
    /\ apc' = "versions"
    /\ UNCHANGED <<areturns, akind, adry, elbVars, repoPackages, pattern,
                   number_to_keep, optOlderThan, older_than, all_packages,
                   deleted_packages, httpDeletes, groupVars,
                   retryVars, pollVars>>

\* One iteration of the inner loop whose safety check tests < for <=.
DeleteStepOffByOne ==
    /\ apc = "versions"
    /\ IF vi > Len(package_versions) \/ number_in_repo < number_to_keep
         THEN \* the list is exhausted, or the safety check breaks out
              /\ apc' = "names"
              /\ UNCHANGED <<vi, number_in_repo, deleted_packages,
                             httpDeletes>>
         ELSE IF /\ older_than # 0
                 /\ Now - all_packages[package_versions[vi]].created_at
                        <= older_than
         THEN \* package_age <= allowed_age: continue
              /\ vi' = vi + 1
              /\ UNCHANGED <<apc, number_in_repo, deleted_packages,
                             httpDeletes>>
         ELSE /\ httpDeletes' = IF adry THEN httpDeletes
                                ELSE Append(httpDeletes, package_versions[vi])
              /\ number_in_repo' = number_in_repo - 1
              /\ deleted_packages' =
                    Append(deleted_packages, package_versions[vi])
              /\ vi' = vi + 1
              /\ UNCHANGED apc
    /\ UNCHANGED <<areturns, akind, adry, elbVars, repoPackages, pattern,
                   number_to_keep, optOlderThan, older_than, all_packages,
                   packages_list_to_delete, package_versions, groupVars,
                   retryVars, pollVars>>

\* _delete, one iteration of `for package in package_versions`.
DeleteStep ==
    /\ apc = "versions"
    /\ IF vi > Len(package_versions) \/ number_in_repo <= number_to_keep
         THEN \* the list is exhausted, or the safety check breaks out
              /\ apc' = "names"
              /\ UNCHANGED <<vi, number_in_repo, deleted_packages,
                             httpDeletes>>
         ELSE IF /\ older_than # 0
                 /\ Now - all_packages[package_versions[vi]].created_at
                        <= older_than
         THEN \* package_age <= allowed_age: continue
              /\ vi' = vi + 1
              /\ UNCHANGED <<apc, number_in_repo, deleted_packages,
                             httpDeletes>>
         ELSE /\ httpDeletes' = IF adry THEN httpDeletes
                                ELSE Append(httpDeletes, package_versions[vi])
              /\ number_in_repo' = number_in_repo - 1
              /\ deleted_packages' =
                    Append(deleted_packages, package_versions[vi])
              /\ vi' = vi + 1
              /\ UNCHANGED apc
    /\ UNCHANGED <<areturns, akind, adry, elbVars, repoPackages, pattern,
                   number_to_keep, optOlderThan, older_than, all_packages,
                   packages_list_to_delete, package_versions, groupVars,
                   retryVars, pollVars>>

\* _delete: the outer loop is over, raise gen.Return(deleted_packages).
DeleteReturn ==
    /\ apc = "names"
    /\ packages_list_to_delete = {}
    /\ apc' = "done"
    /\ UNCHANGED <<areturns, akind, adry, elbVars, pkgVars, groupVars,
                   retryVars, pollVars>>

\* BaseActor.execute of an actor whose _execute returned the list
\* deleted_packages: the list is handed to the caller as it is, and the
\* caller sees its truth value.
ActorExecuteReturnPassThrough ==
    /\ akind \in PkgKinds
    /\ apc = "done"
    /\ areturns = <<>>
    /\ areturns' = <<deleted_packages # <<>>>>
    /\ UNCHANGED <<akind, adry, apc, elbVars, pkgVars, groupVars, retryVars,
                   pollVars>>

\* BaseActor.execute of a Delete or DeleteByDate whose _execute completed
\* without an error: execute() returns whether the action succeeded, True.
ActorExecuteReturn ==
    /\ akind \in PkgKinds
    /\ apc = "done"
    /\ areturns = <<>>
    /\ areturns' = <<TRUE>>
    /\ UNCHANGED <<akind, adry, apc, elbVars, pkgVars, groupVars, retryVars,
                   pollVars>>

\* ==================================================== WaitUntilHealthy
\* Python floats are IEEE 754 doubles: a mantissa of Precision bits, every
\* operation rounded to the nearest double, ties to the even mantissa. A
\* positive double is [m, e]: m its mantissa, most significant bit first,
\* and its value is m * 2^e; zero is the empty mantissa.
Precision == 53

FloatZero == [m |-> <<>>, e |-> 0]

\* The c-th power of 2 modulo d, by repeated squaring.
RECURSIVE Pow2Mod(_, _)
Pow2Mod(c, d) ==
    IF c = 0 THEN 1 % d
    ELSE LET h == Pow2Mod(c \div 2, d)
         IN  (h * h * (IF c % 2 = 1 THEN 2 ELSE 1)) % d

\* The number of binary digits of the natural number c.
BitLen(c) == CHOOSE k \in 0..30 : c < 2^k /\ (k = 0 \/ c >= 2^(k - 1))

\* The last w binary digits of the natural number c.
PadBits(c, w) == [i \in 1..w |-> (c \div 2^(w - i)) % 2]

\* The binary digits of the natural number c.
ToBits(c) == PadBits(c, BitLen(c))

\* The natural number whose binary digits are b.
RECURSIVE FromBits(_)
FromBits(b) ==
    IF b = <<>> THEN 0
    ELSE 2 * FromBits(SubSeq(b, 1, Len(b) - 1)) + b[Len(b)]

\* b + 1.
IncBits(b) ==
    IF \A i \in DOMAIN b : b[i] = 1
    THEN <<1>> \o [i \in DOMAIN b |-> 0]
    ELSE LET z == CHOOSE i \in DOMAIN b :
                      b[i] = 0 /\ \A j \in (i + 1)..Len(b) : b[j] = 1
         IN  [i \in DOMAIN b |->
                 IF i < z THEN b[i] ELSE IF i = z THEN 1 ELSE 0]

\* b * t + carry, for a natural number t, eight digits of b at a time.
RECURSIVE MulBits(_, _, _)
MulBits(b, t, carry) ==
    IF b = <<>> THEN ToBits(carry)
    ELSE LET L == Len(b)
             w == IF L < 8 THEN L ELSE 8
             v == FromBits(SubSeq(b, L - w + 1, L)) * t + carry
         IN  MulBits(SubSeq(b, 1, L - w), t, v \div 2^w)
                 \o PadBits(v % 2^w, w)

\* The i-th binary digit of r / d after the point, for r < d.
FracBit(r, d, i) ==
    IF 2 * ((r * Pow2Mod(i - 1, d)) % d) >= d THEN 1 ELSE 0

\* The binary digits from..to of r / d after the point, for r < d, and
\* whether r / d has a nonzero digit after them.
Expand(r, d, from, to) ==
    [bits |-> [i \in 1..(to - from + 1) |-> FracBit(r, d, from + i - 1)],
     rest |-> (r * Pow2Mod(to, d)) % d # 0]

\* The number of binary zeros of r / d right after the point, 0 < r < d.
LeadingZeros(r, d) ==
    (CHOOSE i \in 1..d : /\ FracBit(r, d, i) = 1
                         /\ \A j \in 1..(i - 1) : FracBit(r, d, j) = 0) - 1

\* The double nearest to b * 2^e (plus something below the last digit of b
\* if sticky), for digits b that start with 1 and are at least Precision.
RoundBits(b, sticky, e) ==
    LET L == Len(b)
        kept == SubSeq(b, 1, Precision)
        rest == SubSeq(b, Precision + 1, L)
        guard == rest # <<>> /\ rest[1] = 1
        below == sticky \/ \E i \in 2..Len(rest) : rest[i] = 1
        up == guard /\ (below \/ kept[Precision] = 1)
        m1 == IF up THEN IncBits(kept) ELSE kept
    IN  IF Len(m1) > Precision
        THEN [m |-> SubSeq(m1, 1, Precision), e |-> e + (L - Precision) + 1]
        ELSE [m |-> m1, e |-> e + (L - Precision)]

\* float(n) / d for natural numbers n and d > 0.
FloatDiv(n, d) ==
    IF n = 0 THEN FloatZero
    ELSE IF n \div d > 0
    THEN LET ib == ToBits(n \div d)
             k == Precision + 1 - Len(ib)
             frac == Expand(n % d, d, 1, k)
         IN  RoundBits(ib \o frac.bits, frac.rest, 0 - k)
    ELSE LET z == LeadingZeros(n, d)
             frac == Expand(n, d, z + 1, z + Precision + 1)
         IN  RoundBits(frac.bits, frac.rest, 0 - (z + Precision + 1))

\* t * f for a natural number t and a double f.
FloatMul(t, f) ==
    IF t = 0 \/ f.m = <<>> THEN FloatZero
    ELSE RoundBits(MulBits(f.m, t, 0), FALSE, f.e)

\* math.ceil(f), for a double f smaller than 2^Precision.
Ceil(f) ==
    IF f.m = <<>> THEN 0
    ELSE LET ibits == Precision + f.e
         IN  IF ibits <= 0 THEN 1
             ELSE FromBits(SubSeq(f.m, 1, ibits))
                  + (IF \E i \in (ibits + 1)..Precision : f.m[i] = 1
                       THEN 1 ELSE 0)

\* p2f: float(string.strip('%')) / 100, for the string 'n%'.
p2f(n) == FloatDiv(n, 100)

\* WaitUntilHealthy._get_expected_count.
GetExpectedCount(cnt, total) ==
    IF cnt.pct THEN Ceil(FloatMul(total, p2f(cnt.n)))
    ELSE cnt.n

PollKinds == {"WaitUntilHealthy", "WaitForPackage"}

InstanceStates == {"InService", "OutOfService"}

PkgVersions == {"0.1", "0.2"}

\* The percentages the polled health targets are drawn from.
PollPercents == {0, 50, 100}

\* Option 'count': an integer or a percentage string.
Counts(percents) ==
    {[pct |-> FALSE, n |-> k] : k \in 0..MaxCount}
        \cup {[pct |-> TRUE, n |-> k] : k \in percents}

\* Lists of at most n instance states.
RECURSIVE HealthLists(_)
HealthLists(n) ==
    IF n = 0 THEN {<<>>}
    ELSE HealthLists(n - 1) \cup [1..n -> InstanceStates]

\* Lists of at most n packages of the repository.
RECURSIVE RepoLists(_)
RepoLists(n) ==
    IF n = 0 THEN {<<>>}
    ELSE RepoLists(n - 1) \cup
         [1..n -> [name : PkgNames, version : PkgVersions]]

InitPoll ==
    /\ count \in (IF akind = "WaitUntilHealthy"
                    THEN Counts(PollPercents)
                    ELSE {[pct |-> FALSE, n |-> 0]})
    /\ health \in (IF akind = "WaitUntilHealthy"
                     THEN HealthLists(MaxInstances) ELSE {<<>>})
    /\ total_count = -1
    /\ expected_count = -1
    /\ evals = 0
    /\ sleeps = 0
    /\ history = <<>>
    /\ cancelAt = -1
    /\ changes = 0
    /\ pollRepo \in (IF akind = "WaitForPackage"
                       THEN RepoLists(1) ELSE {<<>>})
    /\ namePattern \in (IF akind = "WaitForPackage"
                          THEN SUBSET PkgNames \ {{}} ELSE {{}})
    /\ versionPattern \in (IF akind = "WaitForPackage"
                             THEN SUBSET PkgVersions \ {{}} ELSE {{}})

\* The number of InService instances of an instance list.
InServiceCount(instance_list) ==
    Cardinality({i \in DOMAIN instance_list :
                     instance_list[i] = "InService"})

\* _is_healthy with > for >=.
IsHealthyStrict(instance_list, cnt) ==
    InServiceCount(instance_list)
        > GetExpectedCount(cnt, Len(instance_list))

\* WaitUntilHealthy._is_healthy.
IsHealthy(instance_list, cnt) ==
    InServiceCount(instance_list)
        >= GetExpectedCount(cnt, Len(instance_list))

\* WaitUntilHealthy._execute up to its loop: the ELB is found.
WaitUntilHealthyExecute ==
    /\ akind = "WaitUntilHealthy"
    /\ apc = "idle"
    /\ apc' = "check"
    /\ UNCHANGED <<areturns, akind, adry, elbVars, pkgVars, groupVars, retryVars,
                   pollVars>>

\* One turn of the loop that goes on when the ELB is healthy.
WaitUntilHealthyLoopNoBreak ==
    /\ akind = "WaitUntilHealthy"
    /\ apc = "check"
    /\ evals < MaxEvals
    /\ LET healthy == IsHealthy(health, count)
       IN  /\ history' = Append(history, healthy)
           /\ apc' = IF adry THEN "done" ELSE "sleep"
    /\ total_count' = Len(health)
    /\ expected_count' = GetExpectedCount(count, Len(health))
    /\ evals' = evals + 1
    /\ UNCHANGED <<areturns, akind, adry, elbVars, pkgVars, groupVars, retryVars,
                   count, health, sleeps, cancelAt, changes, pollRepo,
                   namePattern, versionPattern>>

\* One turn of the loop without the test of self._dry.
WaitUntilHealthyLoopNoDry ==
    /\ akind = "WaitUntilHealthy"
    /\ apc = "check"
    /\ evals < MaxEvals
    /\ LET healthy == IsHealthy(health, count)
       IN  /\ history' = Append(history, healthy)
           /\ apc' = IF healthy THEN "done" ELSE "sleep"
    /\ total_count' = Len(health)
    /\ expected_count' = GetExpectedCount(count, Len(health))
    /\ evals' = evals + 1
    /\ UNCHANGED <<areturns, akind, adry, elbVars, pkgVars, groupVars, retryVars,
                   count, health, sleeps, cancelAt, changes, pollRepo,
                   namePattern, versionPattern>>

\* One turn of the loop that breaks whenever the ELB was checked.
WaitUntilHealthyLoopAlwaysBreak ==
    /\ akind = "WaitUntilHealthy"
    /\ apc = "check"
    /\ evals < MaxEvals
    /\ history' = Append(history, IsHealthy(health, count))
    /\ apc' = "done"
    /\ total_count' = Len(health)
    /\ expected_count' = GetExpectedCount(count, Len(health))
    /\ evals' = evals + 1
    /\ UNCHANGED <<areturns, akind, adry, elbVars, pkgVars, groupVars, retryVars,
                   count, health, sleeps, cancelAt, changes, pollRepo,
                   namePattern, versionPattern>>

\* One turn of the loop of WaitUntilHealthy._execute, up to its break or
\* its sleep: _is_healthy, then the tests of healthy and of self._dry.
WaitUntilHealthyLoop ==
    /\ akind = "WaitUntilHealthy"
    /\ apc = "check"
    /\ evals < MaxEvals
    /\ LET healthy == IsHealthy(health, count)
       IN  /\ history' = Append(history, healthy)
           /\ apc' = IF healthy THEN "done"
                     ELSE IF adry THEN "done"
                     ELSE "sleep"
    /\ total_count' = Len(health)
    /\ expected_count' = GetExpectedCount(count, Len(health))
    /\ evals' = evals + 1
    /\ UNCHANGED <<areturns, akind, adry, elbVars, pkgVars, groupVars, retryVars,
                   count, health, sleeps, cancelAt, changes, pollRepo,
                   namePattern, versionPattern>>

\* yield utils.tornado_sleep(3), and back to the top of the loop.
TornadoSleep ==
    /\ akind = "WaitUntilHealthy"
    /\ apc = "sleep"
    /\ sleeps' = sleeps + 1
    /\ apc' = "check"
    /\ UNCHANGED <<areturns, akind, adry, elbVars, pkgVars, groupVars, retryVars,
                   count, health, total_count, expected_count, evals,
                   history, cancelAt, changes, pollRepo, namePattern,
                   versionPattern>>

\* The outside world: an instance of the ELB changes its state.
HealthChange ==
    /\ akind = "WaitUntilHealthy"
    /\ apc \in {"check", "sleep"}
    /\ changes < MaxChanges
    /\ \E i \in DOMAIN health, st \in InstanceStates :
          /\ st # health[i]
          /\ health' = [health EXCEPT ![i] = st]
    /\ changes' = changes + 1
    /\ UNCHANGED <<areturns, akind, adry, apc, elbVars, pkgVars, groupVars, retryVars,
                   count, total_count, expected_count, evals, sleeps,
                   history, cancelAt, pollRepo, namePattern, versionPattern>>

\* wait_task.cancel() of the caller while the coroutine is suspended. The
\* Future of a Tornado coroutine does not support cancellation: the call
\* has no effect on the coroutine.
Cancel ==
    /\ akind = "WaitUntilHealthy"
    /\ apc \in {"check", "sleep"}
    /\ cancelAt = -1
    /\ cancelAt' = evals
    /\ UNCHANGED <<areturns, akind, adry, apc, elbVars, pkgVars, groupVars, retryVars,
                   count, health, total_count, expected_count, evals,
                   sleeps, history, changes, pollRepo, namePattern,
                   versionPattern>>

\* ------------------------------------------- packagecloud WaitForPackage
\* WaitForPackage._search: the packages both patterns match.
Search(packages, names, versions) ==
    SelectSeq(packages, LAMBDA q : q.name \in names /\ q.version \in versions)

\* WaitForPackage._execute up to its loop.
WaitForPackageExecute ==
    /\ akind = "WaitForPackage"
    /\ apc = "idle"
    /\ apc' = "check"
    /\ UNCHANGED <<areturns, akind, adry, elbVars, pkgVars, groupVars, retryVars,
                   pollVars>>

\* One turn of the loop that returns whatever the search found.
WaitForPackageLoopAlwaysReturn ==
    /\ akind = "WaitForPackage"
    /\ apc = "check"
    /\ evals < MaxEvals
    /\ LET matched_packages == Search(pollRepo, namePattern, versionPattern)
       IN  history' = Append(history, Len(matched_packages) > 0)
    /\ apc' = "done"
    /\ evals' = evals + 1
    /\ UNCHANGED <<areturns, akind, adry, elbVars, pkgVars, groupVars, retryVars,
                   count, health, total_count, expected_count, sleeps,
                   cancelAt, changes, pollRepo, namePattern, versionPattern>>

\* One turn of the loop of WaitForPackage._execute, up to its return or
\* its sleep: _search, then the test of the matches.
WaitForPackageLoop ==
    /\ akind = "WaitForPackage"
    /\ apc = "check"
    /\ evals < MaxEvals
    /\ LET matched_packages == Search(pollRepo, namePattern, versionPattern)
       IN  /\ history' = Append(history, Len(matched_packages) > 0)
           /\ apc' = IF Len(matched_packages) > 0 THEN "done" ELSE "sleep"
    /\ evals' = evals + 1
    /\ UNCHANGED <<areturns, akind, adry, elbVars, pkgVars, groupVars, retryVars,
                   count, health, total_count, expected_count, sleeps,
                   cancelAt, changes, pollRepo, namePattern, versionPattern>>

\* yield gen.sleep(self.option('sleep')), and back to the top of the loop.
GenSleep ==
    /\ akind = "WaitForPackage"
    /\ apc = "sleep"
    /\ sleeps' = sleeps + 1
    /\ apc' = "check"
    /\ UNCHANGED <<areturns, akind, adry, elbVars, pkgVars, groupVars, retryVars,
                   count, health, total_count, expected_count, evals,
                   history, cancelAt, changes, pollRepo, namePattern,
                   versionPattern>>

\* The outside world: a package is uploaded to the repository.
PackageUpload ==
    /\ akind = "WaitForPackage"
    /\ apc \in {"check", "sleep"}
    /\ changes < MaxChanges
    /\ \E q \in [name : PkgNames, version : PkgVersions] :
          pollRepo' = Append(pollRepo, q)
    /\ changes' = changes + 1
    /\ UNCHANGED <<areturns, akind, adry, apc, elbVars, pkgVars, groupVars, retryVars,
                   count, health, total_count, expected_count, evals,
                   sleeps, history, cancelAt, namePattern, versionPattern>>

NextPoll ==
    \/ WaitUntilHealthyExecute
    \/ WaitUntilHealthyLoop
    \/ TornadoSleep
    \/ HealthChange
    \/ Cancel
    \/ WaitForPackageExecute
    \/ WaitForPackageLoop
    \/ GenSleep
    \/ PackageUpload

\* ------------------------------------------------- _get_expected_count
\* A call of _get_expected_count(count, total_count).
GetExpectedCountCall ==
    /\ akind = "WaitUntilHealthy"
    /\ apc = "count"
    /\ expected_count' = GetExpectedCount(count, total_count)
    /\ apc' = "counted"
    /\ UNCHANGED <<areturns, akind, adry, elbVars, pkgVars, groupVars, retryVars,
                   count, health, total_count, evals, sleeps, history,
                   cancelAt, changes, pollRepo, namePattern, versionPattern>>

NextCount == GetExpectedCountCall

Next ==
    \/ Construct
    \/ \E g \in NodeIds, c \in NodeIds : GetActor(g, c)
    \/ \E g \in NodeIds : BuildDone(g)
    \/ Execute
    \/ \E g \in NodeIds : SyncBegin(g)
    \/ \E g \in NodeIds : SyncYield(g)
    \/ \E g \in NodeIds : SyncReturn(g)
    \/ \E g \in NodeIds : AsyncLaunch(g)
    \/ \E g \in NodeIds : AsyncWait(g)
    \/ \E g \in NodeIds : AsyncJoin(g)
    \/ \E g \in NodeIds : GroupExecute(g)
    \/ \E c \in NodeIds : LeafFinish(c)

Init == InitGroup /\ ActorsUnused

Spec == Init /\ [][Next]_vars

GroupUnused ==
    /\ acts = <<>>
    /\ dryRun = FALSE
    /\ inited = [n \in NodeIds |-> "none"]
    /\ dry = [n \in NodeIds |-> FALSE]
    /\ failed = FALSE
    /\ exec = [n \in NodeIds |-> "idle"]
    /\ result = [n \in NodeIds |-> FALSE]
    /\ returns = [n \in NodeIds |-> <<>>]
    /\ launched = [n \in NodeIds |-> 0]
    /\ gpc = [n \in NodeIds |-> "loop"]
    /\ calls = [n \in NodeIds |-> 0]

NextActors ==
    \/ RegisterInstanceExecute
    \/ DeregisterInstanceExecute
    \/ Add
    \/ Remove
    \/ DeleteExecute
    \/ DeleteByDateExecute
    \/ DeleteFetch
    \/ DeleteNextName
    \/ DeleteStep
    \/ DeleteReturn
    \/ ActorExecuteReturn

InitActorsSpec == GroupUnused /\ InitActors

SpecActors == InitActorsSpec /\ [][NextActors]_vars

InitPollSpec ==
    /\ GroupUnused
    /\ akind \in PollKinds
    /\ adry \in BOOLEAN
    /\ apc = "idle"
    /\ areturns = <<>>
    /\ ElbUnused
    /\ PkgUnused
    /\ RetryUnused
    /\ InitPoll

SpecPoll == InitPollSpec /\ [][NextPoll]_vars

InitCountSpec ==
    /\ GroupUnused
    /\ akind = "WaitUntilHealthy"
    /\ adry = FALSE
    /\ apc = "count"
    /\ areturns = <<>>
    /\ ElbUnused
    /\ PkgUnused
    /\ RetryUnused
    /\ count \in Counts(0..MaxPercent)
    /\ health = <<>>
    /\ total_count \in 0..MaxTotal
    /\ expected_count = -1
    /\ evals = 0
    /\ sleeps = 0
    /\ history = <<>>
    /\ cancelAt = -1
    /\ changes = 0
    /\ pollRepo = <<>>
    /\ namePattern = {}
    /\ versionPattern = {}

SpecCount == InitCountSpec /\ [][NextCount]_vars

\* ================================================================ claims
ParentOf == [n \in Nodes |-> acts[n].parent]

\* The actors of the subtree rooted at n.
Subtree(n) == {x \in Nodes : n \in AncestorsOrSelf(ParentOf, x)}

SyncGroups == {g \in Nodes : acts[g].kind = "Sync"}

AsyncGroups == {g \in Nodes : acts[g].kind = "Async"}

Failed(c) == exec[c] = "done" /\ ~result[c]

\* C1: the result of an executed Group, Sync or Async, is the logical AND of
\* the results of all its children, whatever order they ran and finished in.
C1_ResultIsAnd ==
    \A g \in Nodes :
        (IsGroup(g) /\ exec[g] = "done")
            => (result[g] = (\A c \in Children(g) : result[c]))

\* An Async group reported false although its first child succeeded: a later
\* child failed.
C1_Witness ==
    \E g \in AsyncGroups :
        /\ exec[g] = "done"
        /\ NumChildren(g) >= 2
        /\ ~result[g]
        /\ result[NthChild(g, 1)]
        /\ ~result[NthChild(g, NumChildren(g))]

\* C2: in a Sync group a child that has begun has every child declared
\* before it, with its whole subtree, completed; so at most one child runs
\* at a time and it is the first unfinished one.
C2_SyncOrder ==
    \A g \in SyncGroups :
        /\ \A c \in Children(g), d \in Children(g) :
              (c < d /\ exec[d] # "idle")
                  => \A x \in Subtree(c) : exec[x] = "done"
        /\ Cardinality({c \in Children(g) : exec[c] = "running"}) <= 1
        /\ \A c \in Children(g) :
              exec[c] = "running"
                  => /\ \A d \in Children(g) : d < c => exec[d] = "done"
                     /\ \A d \in Children(g) : d > c => exec[d] = "idle"

\* The second child of a Sync group runs after the first, a group with
\* children of its own, has completed.
C2_Witness ==
    \E g \in SyncGroups :
        /\ NumChildren(g) >= 2
        /\ IsGroup(NthChild(g, 1))
        /\ NumChildren(NthChild(g, 1)) >= 1
        /\ exec[NthChild(g, 1)] = "done"
        /\ exec[NthChild(g, 2)] = "running"

C4_AsyncAllStarted ==
    \A g \in AsyncGroups :
        gpc[g] \in {"wait", "returned"}
            => \A c \in Children(g) : exec[c] # "idle"

\* An Async group waits while a later child has finished before an earlier
\* one.
C4_Witness ==
    \E g \in AsyncGroups :
        /\ gpc[g] = "wait"
        /\ \E c \in Children(g), d \in Children(g) :
              /\ c < d
              /\ exec[c] = "running"
              /\ exec[d] = "done"

\* C5: an Async group neither computes its aggregate result nor completes
\* before every one of its children has finished.
C5_AsyncJoinAll ==
    \A g \in AsyncGroups :
        (gpc[g] = "returned" \/ exec[g] = "done")
            => /\ \A c \in Children(g) : exec[c] = "done"
               /\ Len(returns[g]) = NumChildren(g)
               /\ \A i \in 1..NumChildren(g) :
                     returns[g][i] = result[NthChild(g, i)]

\* An Async group with several children, one of them a group, is done.
C5_Witness ==
    \E g \in AsyncGroups :
        /\ exec[g] = "done"
        /\ NumChildren(g) >= 2
        /\ \E c \in Children(g) : IsGroup(c) /\ NumChildren(c) >= 1

C6_NoCancelStep ==
    \A g \in AsyncGroups : \A c \in Children(g) :
        (exec[c] = "running" /\ \E d \in Children(g) \ {c} : Failed(d))
            => exec'[c] \in {"running", "done"}

C6_NoCancelState ==
    \A g \in AsyncGroups :
        (\E d \in Children(g) : Failed(d))
            => \A c \in Children(g) :
                  /\ exec[c] # "cancelled"
                  /\ (gpc[g] = "returned" => exec[c] = "done")

\* C6: in an Async group the failure of a child never cancels a sibling: a
\* running sibling keeps running until it is done, and the group returns
\* only when the siblings of the failed child are done too.
C6_AsyncFailSoft == [][C6_NoCancelStep]_vars /\ []C6_NoCancelState

\* A child of an Async group has failed while a sibling is still running.
C6_Witness ==
    \E g \in AsyncGroups :
        \E c \in Children(g), d \in Children(g) :
            /\ Failed(d)
            /\ exec[c] = "running"

\* C7: when the construction of a Group has succeeded every actor of the
\* tree, at every depth, is constructed from a valid specification; when it
\* has failed, and until it has succeeded, no actor has begun executing.
C7_ConstructionValidates ==
    /\ inited[1] = "ready"
          => \A n \in Nodes : inited[n] = "ready" /\ acts[n].valid
    /\ (\E n \in Nodes : ~acts[n].valid) => inited[1] # "ready"
    /\ failed => inited[1] # "ready"
    /\ \A n \in Nodes : exec[n] # "idle" => (inited[1] = "ready" /\ ~failed)

\* The third child of a group is invalid: the construction has failed after
\* the first two children were constructed, and nothing has executed.
C7_Witness ==
    /\ failed
    /\ \E g \in Nodes : \E c \in Children(g) :
          /\ ChildIndex(g, c) = 3
          /\ ~acts[c].valid
          /\ \A d \in Children(g) : d < c => inited[d] = "ready"
    /\ \A n \in Nodes : exec[n] = "idle"

C8_DryInherited ==
    \A n \in Nodes : inited[n] # "none" => dry[n] = dryRun

C8_DryKept ==
    /\ dryRun' = dryRun
    /\ \A n \in Nodes : inited[n] # "none" => dry'[n] = dry[n]

\* C8: the dry flag of every constructed actor of the tree, at every depth,
\* is the dry flag the top Group was constructed with, and no step of the
\* construction or of the execution changes it.
C8_DryPropagation == []C8_DryInherited /\ [][C8_DryKept]_vars

\* In a dry run an actor two levels below the top Group is executing dry.
C8_Witness ==
    /\ dryRun
    /\ \E n \in Nodes :
          /\ acts[n].parent > 1
          /\ exec[n] = "running"
          /\ dry[n]

\* C9: a dry actor never mutates anything outside: register_instances,
\* deregister_instances and http_delete are called only by actors that are
\* not dry.
C9_DryNoMutation ==
    /\ adry => (registerCalls = 0 /\ deregisterCalls = 0 /\ httpDeletes = <<>>)
    /\ (registerCalls > 0 \/ deregisterCalls > 0 \/ httpDeletes # <<>>)
          => ~adry

\* A dry Delete or DeleteByDate has run to its end and reports packages it
\* would have deleted, without one http_delete.
C9_Witness ==
    /\ adry
    /\ akind \in PkgKinds
    /\ apc = "done"
    /\ Len(deleted_packages) >= 2
    /\ httpDeletes = <<>>

\* C10: when the load balancer call always fails with an
\* UnrecoverableError, the retry decorator calls it exactly once: the error
\* propagates instead of being retried.
C10_UnrecoverableNotRetried ==
    (akind \in ElbKinds /\ failKind = "UnrecoverableError" /\ failAlways)
        => attempts <= 1

\* C11: when the load balancer call fails with an OperationalError a number
\* of times (twice, in particular) and then succeeds, the retry decorator
\* repeats it with the same arguments, never gives up, and returns with
\* success after exactly one attempt more than there were failures (3).
C11_TransientRetried ==
    (akind \in ElbKinds /\ ~adry /\ failKind = "OperationalError"
        /\ ~failAlways)
        => /\ apc # "raised"
           /\ Len(callArgs) = attempts
           /\ \A i \in DOMAIN callArgs : callArgs[i] = instances
           /\ attempts <= failTimes + 1
           /\ apc = "done" => attempts = failTimes + 1
           /\ (apc = "done" /\ failTimes = 2) => attempts = 3

\* A RegisterInstance whose call failed twice with an OperationalError has
\* registered its instances at the third attempt.
C11_Witness ==
    /\ akind = "RegisterInstance"
    /\ ~adry
    /\ failKind = "OperationalError"
    /\ failTimes = 2
    /\ apc = "done"
    /\ attempts = 3
    /\ lastError = "OperationalError"
    /\ instances \subseteq elbInstances

\* C12: a poll loop that is not a dry run and whose condition is false twice
\* and then true makes exactly 3 evaluations, sleeps between consecutive
\* evaluations (twice), and is done without a 4th evaluation.
C12_PollTerminates ==
    (/\ akind \in PollKinds
     /\ ~adry
     /\ Len(history) >= 3
     /\ SubSeq(history, 1, 3) = <<FALSE, FALSE, TRUE>>)
        => /\ history = <<FALSE, FALSE, TRUE>>
           /\ evals = 3
           /\ sleeps = 2
           /\ apc = "done"

C12_Witness ==
    /\ akind = "WaitUntilHealthy"
    /\ ~adry
    /\ cancelAt = -1
    /\ history = <<FALSE, FALSE, TRUE>>
    /\ evals = 3
    /\ sleeps = 2
    /\ apc = "done"

\* C13: when cancellation of a running WaitUntilHealthy is requested after
\* its 1st evaluation (false) and before its 2nd, the 2nd evaluation never
\* takes place.
C13_CancelStopsLoop ==
    (akind = "WaitUntilHealthy" /\ cancelAt = 1) => evals <= 1

\* C14: a dry run of WaitUntilHealthy is done after at most one health
\* evaluation, whatever its value, and never sleeps.
C14_DryHealthPoll ==
    (akind = "WaitUntilHealthy" /\ adry)
        => /\ sleeps = 0
           /\ evals <= 1
           /\ apc # "sleep"
           /\ evals = 1 => apc = "done"

C14_Witness ==
    /\ akind = "WaitUntilHealthy"
    /\ adry
    /\ history = <<FALSE>>
    /\ apc = "done"
    /\ sleeps = 0

\* C15: a dry run of WaitForPackage is done after at most one search and
\* never sleeps, even when no package matches.
C15_DryPackagePoll ==
    (akind = "WaitForPackage" /\ adry)
        => /\ sleeps = 0
           /\ evals <= 1
           /\ apc # "sleep"

\* C16: _get_expected_count returns the ceiling of total_count times the
\* percentage for a percentage, and the integer itself otherwise.
C16_ExpectedCountIsCeil ==
    (akind = "WaitUntilHealthy" /\ apc = "counted")
        => expected_count =
               IF count.pct THEN (total_count * count.n + 99) \div 100
               ELSE count.n

\* C17: with a target of 0 (0 or '0%') WaitUntilHealthy is done after its
\* first health evaluation, which is true for every instance list, and
\* never sleeps.
C17_ZeroTargetSatisfied ==
    (akind = "WaitUntilHealthy" /\ count.n = 0)
        => /\ sleeps = 0
           /\ evals <= 1
           /\ apc # "sleep"
           /\ evals = 1 => (apc = "done" /\ history = <<TRUE>>)

C17_Witness ==
    /\ akind = "WaitUntilHealthy"
    /\ ~adry
    /\ count = [pct |-> TRUE, n |-> 0]
    /\ Len(health) > 0
    /\ InServiceCount(health) = 0
    /\ history = <<TRUE>>
    /\ apc = "done"

\* C18: when it is no dry run, the ELB has no instance and the target is a
\* nonzero integer, WaitUntilHealthy is never done: every evaluation is
\* false and is followed by a sleep, every sleep by an evaluation.
C18_NoInstancesNeverDone ==
    (/\ akind = "WaitUntilHealthy"
     /\ ~adry
     /\ health = <<>>
     /\ ~count.pct
     /\ count.n > 0)
        => /\ apc # "done"
           /\ \A i \in DOMAIN history : ~history[i]
           /\ Len(history) = evals
           /\ apc = "sleep" => sleeps = evals - 1
           /\ apc = "check" => sleeps = evals

C18_Witness ==
    /\ akind = "WaitUntilHealthy"
    /\ ~adry
    /\ health = <<>>
    /\ count = [pct |-> FALSE, n |-> 1]
    /\ cancelAt = -1
    /\ evals = 3
    /\ sleeps = 2
    /\ apc = "sleep"

\* C19: the versions _delete leaves in the repository are the newest ones:
\* no version it deleted was created after a version of the same package
\* that it kept.
C19_OldestDeletedFirst ==
    (akind = "Delete" /\ apc = "done")
        => \A i, j \in DOMAIN all_packages :
              (/\ all_packages[i].name = all_packages[j].name
               /\ \E d \in DOMAIN deleted_packages : deleted_packages[d] = i
               /\ \A d \in DOMAIN deleted_packages : deleted_packages[d] # j)
                 => all_packages[i].created_at <= all_packages[j].created_at

\* C20: at every point of a run of _delete, the number of versions of each
\* package that were not deleted is at least number_to_keep, or the number
\* of its versions in the repository if that is smaller.
C20_KeepsNumberToKeep ==
    akind \in PkgKinds
        => \A name \in PkgNames :
              LET initial == {i \in DOMAIN repoPackages :
                                  repoPackages[i].name = name}
                  gone == {i \in initial :
                               \E d \in DOMAIN deleted_packages :
                                   deleted_packages[d] = i}
                  least == IF number_to_keep < Cardinality(initial)
                             THEN number_to_keep ELSE Cardinality(initial)
              IN  Cardinality(initial \ gone) >= least

C20_Witness ==
    /\ akind = "Delete"
    /\ ~adry
    /\ apc = "done"
    /\ number_to_keep = 1
    /\ Len(repoPackages) = 3
    /\ \A i \in DOMAIN repoPackages : repoPackages[i].name = "pkg1"
    /\ Len(httpDeletes) = 2

\* C21: DeleteByDate deletes, or reports as deleted, no version whose age
\* is less than or equal to the option older_than.
C21_OnlyOlderDeleted ==
    akind = "DeleteByDate"
        => \A d \in DOMAIN deleted_packages :
              Now - all_packages[deleted_packages[d]].created_at
                  > optOlderThan

C23_DoneOnlyAfterTrue ==
    (akind \in PollKinds /\ ~adry /\ apc = "done")
        => /\ history # <<>>
           /\ history[Len(history)]
           /\ Len(history) = evals
           /\ akind = "WaitUntilHealthy" =>
                  InServiceCount(health) >= expected_count
           /\ akind = "WaitForPackage" =>
                  Search(pollRepo, namePattern, versionPattern) # <<>>

C23_Witness ==
    /\ akind = "WaitForPackage"
    /\ ~adry
    /\ apc = "done"
    /\ history = <<FALSE, TRUE>>
    /\ sleeps = 1

\* C25: a Group without children, Sync or Async, starts no execute(),
\* collects no result and returns True, the AND of no results.
C25_EmptyGroupTrue ==
    \A g \in Nodes :
        (IsGroup(g) /\ Children(g) = {})
            => /\ returns[g] = <<>>
               /\ launched[g] = 0
               /\ exec[g] = "done" => result[g]

C25_Witness ==
    /\ \E g \in SyncGroups :
          Children(g) = {} /\ exec[g] = "done" /\ result[g]
    /\ \E g \in AsyncGroups :
          Children(g) = {} /\ exec[g] = "done" /\ result[g]

====
